---- MODULE Spec2Model ----
(***************************************************************************)
(* Model of the MapRP front end's synchronization core:                    *)
(*   - the geometry validator of DrawControl.jsx                           *)
(*     (cleanCoordinatePair, cleanCoordinatesRecursive,                    *)
(*      ensurePolygonClosedAndClean),                                      *)
(*   - the feature store of App.jsx (the `shapes` state) with its inbound  *)
(*     message handler, the bulk loader of MapLoader.jsx, and the local    *)
(*     gestures of DrawControl.jsx,                                        *)
(*   - the message channel of WebSocketService.jsx over a STOMP Client     *)
(*     and a SockJS socket.                                                *)
(*                                                                         *)
(* JavaScript values are tagged records [k, n, c, a]:                      *)
(*   k = "num"   a finite number n (small integers stand for all of them)  *)
(*   k = "nan"   the number NaN          k = "inf"   the number Infinity   *)
(*   k = "str"   a string, c its sequence of characters                    *)
(*   k = "null"  null                    k = "undef" undefined             *)
(*   k = "arr"   an array, a the sequence of its elements                  *)
(***************************************************************************)
EXTENDS Integers, Sequences, FiniteSets, TLC

VARIABLES
    shapes,      \* App: const [shapes, setShapes] = useState([])
    selectedId,  \* App: const [selectedId, setSelectedId] = useState(null)
    isEditing,   \* App: const [isEditing, setIsEditing] = useState(false)
    loaded,      \* App: the initial bulk fetch (loadMap) has completed
    dirty,       \* a store update is committed but not yet rendered
    failed,      \* a render or an effect threw: the React tree is unmounted
    shapesRef,   \* DrawControl: shapesRef.current
    layers,      \* the live Leaflet layers, by handle: [feature, local]
    layerMap,    \* DrawControl: layerMapRef.current, feature id -> layer handle
    drawnItems,  \* DrawControl: the layers of the drawnItems feature group
    lastId,      \* Leaflet's stamp counter (L.Util.stamp)
    lastOp,      \* the operation processed last, with its message
    prevShapes,  \* the store as it was before lastOp was processed
    observe,     \* whether lastOp and prevShapes are being recorded
    events,      \* the number of events handled so far
    cleanIn,     \* validator harness: the feature handed to the validator
    cleanOut,    \* validator harness: the validator's outcome
    statsIn,     \* statistics harness: the selected shape
    statsOut,    \* statistics harness: the area the statistics panel shows
    replicas,    \* two clients: the store, stamp counter and inbox position of each
    broadcast,   \* two clients: the envelopes published, in the order of the broker
    client,          \* WebSocketService: this.client, a session or null
    subscription,    \* WebSocketService: this.subscription
    messageCallback, \* WebSocketService: this.messageCallback
    sessions,        \* the SockJS socket and STOMP Client made by each connect
    sends,           \* the number of sendMessage calls so far
    sentConnected,   \* the sendMessage calls made while the client was connected
    sentAfterDisconnect, \* those made after disconnect() and before the next connect()
    published,       \* the envelopes handed to client.publish, in order
    disconnected,    \* disconnect() was called and connect() not since
    drops,           \* the number of unexpected closes of a socket so far
    chanOp           \* the operation of the channel performed last

clientVars == <<shapes, selectedId, isEditing, loaded, dirty, failed, shapesRef,
                layers, layerMap, drawnItems, lastId, lastOp, prevShapes, observe>>
harnessVars == <<cleanIn, cleanOut, statsIn, statsOut, replicas, broadcast>>
channelVars == <<client, subscription, messageCallback, sessions, sends, sentConnected,
                 sentAfterDisconnect, published, disconnected, drops, chanOp>>
vars == <<clientVars, harnessVars, events, channelVars>>

(***************************************************************************)
(* JavaScript values                                                       *)
(***************************************************************************)
JNum(n) == [k |-> "num", n |-> n, c |-> <<>>, a |-> <<>>]
JNaN == [k |-> "nan", n |-> 0, c |-> <<>>, a |-> <<>>]
JInf == [k |-> "inf", n |-> 0, c |-> <<>>, a |-> <<>>]
JStr(chars) == [k |-> "str", n |-> 0, c |-> chars, a |-> <<>>]
JNull == [k |-> "null", n |-> 0, c |-> <<>>, a |-> <<>>]
JUndef == [k |-> "undef", n |-> 0, c |-> <<>>, a |-> <<>>]
JArr(elems) == [k |-> "arr", n |-> 0, c |-> <<>>, a |-> elems]

\* The coordinate pair [x, y].
Pair(x, y) == JArr(<<JNum(x), JNum(y)>>)

IsArray(x) == x.k = "arr"

\* typeof x === 'number' || typeof x === 'string'
IsNumberOrString(x) == x.k \in {"num", "nan", "inf", "str"}

\* isNaN(x) and Number.isFinite(x) for a value x of type number.
IsNaN(x) == x.k = "nan"
NumberIsFinite(x) == x.k = "num"

\* x[i] for a non-negative index i; the caller rules out null and undefined,
\* on which the access throws a TypeError.
Index(x, i) ==
    CASE x.k = "arr" -> IF i + 1 <= Len(x.a) THEN x.a[i + 1] ELSE JUndef
      [] x.k = "str" -> IF i + 1 <= Len(x.c) THEN JStr(<<x.c[i + 1]>>) ELSE JUndef
      [] OTHER -> JUndef

\* a === b between two values that are not the same object: primitives are
\* compared by kind and value (NaN equals nothing), two arrays never are equal.
StrictEqual(a, b) ==
    /\ a.k = b.k
    /\ a.k \notin {"arr", "nan"}
    /\ a = b

\* JSON.parse(JSON.stringify(x)): NaN and +-Infinity are written as null, and
\* so is an undefined array element.
RECURSIVE JsonRoundTrip(_)
JsonRoundTrip(x) ==
    CASE x.k \in {"nan", "inf", "undef"} -> JNull
      [] x.k = "arr" -> JArr([i \in 1..Len(x.a) |-> JsonRoundTrip(x.a[i])])
      [] OTHER -> x

\* parseFloat of the strings of the model.
ParseFloatString(chars) ==
    CASE chars = <<"0">> -> JNum(0)
      [] chars = <<"1">> -> JNum(1)
      [] chars = <<"2">> -> JNum(2)
      [] chars = <<"1", "e", "9", "9", "9">> -> JInf
      [] OTHER -> JNaN

\* parseFloat(x): x is converted to a string and its leading number is read.
\* A number reads back as itself; null and undefined read as NaN; an array
\* is written as its elements joined by commas, so its first element decides.
RECURSIVE ParseFloat(_)
ParseFloat(x) ==
    CASE x.k \in {"num", "nan", "inf"} -> x
      [] x.k = "str" -> ParseFloatString(x.c)
      [] x.k = "arr" -> IF Len(x.a) = 0 THEN JNaN
                        ELSE IF x.a[1].k \in {"null", "undef"} THEN JNaN
                        ELSE ParseFloat(x.a[1])
      [] OTHER -> JNaN

(***************************************************************************)
(* The geometry validator (DrawControl.jsx)                                *)
(***************************************************************************)
cleanCoordinatePair(coordPair) ==
    IF ~IsArray(coordPair) \/ Len(coordPair.a) # 2
    THEN JArr(<<JNum(0), JNum(0)>>)
    ELSE LET lon == ParseFloat(coordPair.a[1])
             lat == ParseFloat(coordPair.a[2])
         IN  IF IsNaN(lon) \/ IsNaN(lat) \/ ~NumberIsFinite(lon) \/ ~NumberIsFinite(lat)
             THEN JArr(<<JNum(0), JNum(0)>>)
             ELSE JArr(<<lon, lat>>)

RECURSIVE cleanCoordinatesRecursive(_)
cleanCoordinatesRecursive(coordinates) ==
    IF ~IsArray(coordinates)
    THEN coordinates
    ELSE IF /\ Len(coordinates.a) = 2
            /\ IsNumberOrString(coordinates.a[1])
            /\ IsNumberOrString(coordinates.a[2])
         THEN cleanCoordinatePair(coordinates)
         ELSE JArr([i \in 1..Len(coordinates.a) |->
                        cleanCoordinatesRecursive(coordinates.a[i])])

(***************************************************************************)
(* Features.  A feature is [id, geometry, properties]:                     *)
(*   id          a positive integer, or Undefined when the field is absent *)
(*   geometry    [type, coordinates], or NoGeometry when absent; the type  *)
(*               TypeNull stands for the JavaScript value null             *)
(*   properties  [present, id, color]; NoProperties when absent            *)
(***************************************************************************)
Undefined == 0

TypeNull == "null"
NoGeometry == [type |-> "undefined", coordinates |-> JUndef]
Geometry(type, coordinates) == [type |-> type, coordinates |-> coordinates]
HasGeometry(f) == f.geometry.type # "undefined"

NoProperties == [present |-> FALSE, id |-> Undefined, color |-> "undefined"]
EmptyProperties == [present |-> TRUE, id |-> Undefined, color |-> "undefined"]
Properties(id, color) == [present |-> TRUE, id |-> id, color |-> color]

Feature(id, geometry, properties) ==
    [id |-> id, geometry |-> geometry, properties |-> properties]

\* JSON.parse(JSON.stringify(feature)): an absent field stays absent.
JsonCopy(f) ==
    [f EXCEPT !.geometry.coordinates =
        IF @.k = "undef" THEN @ ELSE JsonRoundTrip(@)]

\* a !== b for the components first[i], last[i] of a ring's first and last
\* point; when the ring has one element both are the same object.
NotIdentical(a, b, sameObject) ==
    IF sameObject THEN a.k = "nan" ELSE ~StrictEqual(a, b)

\* Lines 168-180 for one ring: close it, or replace it by an empty ring.
\* threw: reading [0] of a null point, or spreading a number, is a TypeError.
closeRing(ring) ==
    IF IsArray(ring) /\ Len(ring.a) > 0
    THEN LET firstPoint == ring.a[1]
             lastPoint == ring.a[Len(ring.a)]
             same == Len(ring.a) = 1
         IN  IF firstPoint.k \in {"null", "undef"} \/ lastPoint.k \in {"null", "undef"}
             THEN [threw |-> TRUE, ring |-> ring]
             ELSE IF \/ NotIdentical(Index(firstPoint, 0), Index(lastPoint, 0), same)
                     \/ NotIdentical(Index(firstPoint, 1), Index(lastPoint, 1), same)
                  THEN IF firstPoint.k = "arr"
                       THEN [threw |-> FALSE, ring |-> JArr(Append(ring.a, firstPoint))]
                       ELSE IF firstPoint.k = "str"
                       THEN [threw |-> FALSE,
                             ring |-> JArr(Append(ring.a,
                                 JArr([i \in 1..Len(firstPoint.c) |-> JStr(<<firstPoint.c[i]>>)])))]
                       ELSE [threw |-> TRUE, ring |-> ring]
                  ELSE [threw |-> FALSE, ring |-> ring]
    ELSE [threw |-> FALSE, ring |-> JArr(<<>>)]

\* The validator's outcome: threw = TRUE when it ends in an exception,
\* otherwise feature is the value it returns.
ensurePolygonClosedAndClean(geoJsonFeature) ==
    LET copy == JsonCopy(geoJsonFeature)
        withProps == IF ~copy.properties.present
                     THEN [copy EXCEPT !.properties = EmptyProperties]
                     ELSE copy
        newFeature == IF ~HasGeometry(withProps)
                      THEN [withProps EXCEPT !.geometry = Geometry(TypeNull, JArr(<<>>))]
                      ELSE withProps
    IN  IF IsArray(newFeature.geometry.coordinates)
        THEN LET cleaned == cleanCoordinatesRecursive(newFeature.geometry.coordinates)
             IN  IF newFeature.geometry.type = "Polygon"
                 THEN LET rings == [i \in 1..Len(cleaned.a) |-> closeRing(cleaned.a[i])]
                      IN  IF \E i \in 1..Len(cleaned.a) : rings[i].threw
                          THEN [threw |-> TRUE, feature |-> geoJsonFeature]
                          ELSE [threw |-> FALSE,
                                feature |-> [newFeature EXCEPT !.geometry.coordinates =
                                    JArr([i \in 1..Len(cleaned.a) |-> rings[i].ring])]]
                 ELSE [threw |-> FALSE,
                       feature |-> [newFeature EXCEPT !.geometry.coordinates = cleaned]]
        ELSE [threw |-> FALSE, feature |-> newFeature]

(***************************************************************************)
(* Envelopes.  A message is [type, id, data]; data is absent, a feature,   *)
(* an array of features, or some other JSON value.                         *)
(***************************************************************************)
NoFeature == Feature(Undefined, NoGeometry, NoProperties)
NoData == [kind |-> "none", feature |-> NoFeature, items |-> <<>>]
OtherData == [kind |-> "other", feature |-> NoFeature, items |-> <<>>]
FeatureData(f) == [kind |-> "feature", feature |-> f, items |-> <<>>]
ArrayData(fs) == [kind |-> "array", feature |-> NoFeature, items |-> fs]
Message(type, id, data) == [type |-> type, id |-> id, data |-> data]
\* The packet of a failed initial fetch: loadInitialMapData returns null.
NullPacket == Message("null", Undefined, NoData)
NoMessage == Message("none", Undefined, NoData)

(***************************************************************************)
(* The feature store: App.jsx handleIncomingMessage, MapLoader.jsx         *)
(***************************************************************************)
IsIterable(x) == x.k \in {"arr", "str"}
Elements(x) ==
    IF x.k = "arr" THEN x.a ELSE [i \in 1..Len(x.c) |-> JStr(<<x.c[i]>>)]

\* The first verdict of a loop that ends early on a return or a throw.
FirstVerdict(vs) ==
    IF \A i \in 1..Len(vs) : vs[i] = "ok"
    THEN "ok"
    ELSE vs[CHOOSE i \in 1..Len(vs) : vs[i] # "ok" /\ \A j \in 1..(i - 1) : vs[j] = "ok"]

\* Line 147 for one coordPair.  Reading .length of null throws; isNaN(x)
\* implies !Number.isFinite(x), which holds of everything but a finite number.
coordPairVerdict(coordPair) ==
    IF coordPair.k \in {"null", "undef"} THEN "throw"
    ELSE IF \/ ~IsArray(coordPair)
            \/ Len(coordPair.a) # 2
            \/ ~NumberIsFinite(coordPair.a[1])
            \/ ~NumberIsFinite(coordPair.a[2])
         THEN "reject"
         ELSE "ok"

ringVerdict(ring) ==
    IF ~IsIterable(ring) THEN "throw"
    ELSE FirstVerdict([i \in 1..Len(Elements(ring)) |-> coordPairVerdict(Elements(ring)[i])])

\* Lines 143-153: "ok", "reject" (the handler returns) or "throw".
polygonVerdict(geometry) ==
    IF geometry.type # "Polygon" THEN "ok"
    ELSE IF ~IsIterable(geometry.coordinates) THEN "throw"
    ELSE FirstVerdict([i \in 1..Len(Elements(geometry.coordinates)) |->
                            ringVerdict(Elements(geometry.coordinates)[i])])

\* message.id || geoJsonData.id
TargetId(message) ==
    IF message.id # Undefined THEN message.id ELSE message.data.feature.id

\* prev.findIndex(s => s.id === id), 0 standing for -1
FindIndex(prev, id) ==
    IF \E i \in 1..Len(prev) : prev[i].id = id
    THEN CHOOSE i \in 1..Len(prev) : prev[i].id = id /\ \A j \in 1..(i - 1) : prev[j].id # id
    ELSE 0

\* A removal that deletes only the first feature of the id (a splice at
\* findIndex in place of the filter).
FilterFirstMatch(prev, id) ==
    IF \E i \in 1..Len(prev) : prev[i].id = id
    THEN LET k == CHOOSE i \in 1..Len(prev) :
                      prev[i].id = id /\ \A j \in 1..(i - 1) : prev[j].id # id
         IN  SubSeq(prev, 1, k - 1) \o SubSeq(prev, k + 1, Len(prev))
    ELSE prev

RECURSIVE Filter(_, _)
\* prev.filter(f => f.id !== id)
Filter(prev, id) ==
    IF prev = <<>> THEN <<>>
    ELSE IF Head(prev).id # id
         THEN <<Head(prev)>> \o Filter(Tail(prev), id)
         ELSE Filter(Tail(prev), id)

\* The setShapes updater of lines 155-172.
upsertShape(prev, message) ==
    LET geoJsonData == message.data.feature
        existingIndex == FindIndex(prev, TargetId(message))
    IN  IF message.type = "add"
        THEN IF existingIndex = 0 THEN Append(prev, geoJsonData) ELSE prev
        ELSE IF existingIndex # 0
             THEN [prev EXCEPT ![existingIndex] = [geoJsonData EXCEPT !.id = TargetId(message)]]
             ELSE Append(prev, geoJsonData)

\* A bulk add that merges the array into the store instead of replacing it
\* (setShapes(prev => [...prev, ...packet.data])).
processBulkAddPacketMerging(prev, packet) ==
    IF packet.type = "bulkAdd" /\ packet.data.kind = "array"
    THEN [set |-> TRUE, shapes |-> prev \o packet.data.items]
    ELSE [set |-> FALSE, shapes |-> prev]

\* A bulk add without the Array.isArray test: whatever data the packet has
\* is handed to setShapes, and the features that were stored are gone.
processBulkAddPacketUnchecked(prev, packet) ==
    IF packet.type = "bulkAdd"
    THEN [set |-> TRUE, shapes |-> packet.data.items]
    ELSE [set |-> FALSE, shapes |-> prev]

\* processBulkAddPacket: [set, shapes]
processBulkAddPacket(prev, packet) ==
    IF packet.type = "bulkAdd" /\ packet.data.kind = "array"
    THEN [set |-> TRUE, shapes |-> packet.data.items]
    ELSE [set |-> FALSE, shapes |-> prev]

\* handleIncomingMessage: the store after the message, whether setShapes was
\* given a new array (set), and whether the handler threw.
handleIncomingMessage(prev, message) ==
    CASE message.type \in {"add", "modify"} ->
            IF /\ message.data.kind = "feature"
               /\ HasGeometry(message.data.feature)
               /\ message.data.feature.geometry.type # TypeNull
            THEN CASE polygonVerdict(message.data.feature.geometry) = "throw" ->
                        [threw |-> TRUE, set |-> FALSE, shapes |-> prev]
                   [] polygonVerdict(message.data.feature.geometry) = "reject" ->
                        [threw |-> FALSE, set |-> FALSE, shapes |-> prev]
                   [] OTHER ->
                        [threw |-> FALSE,
                         set |-> ~(message.type = "add" /\ FindIndex(prev, TargetId(message)) # 0),
                         shapes |-> upsertShape(prev, message)]
            ELSE [threw |-> FALSE, set |-> FALSE, shapes |-> prev]
      [] message.type = "remove" ->
            [threw |-> FALSE, set |-> TRUE, shapes |-> Filter(prev, message.id)]
      [] message.type = "bulkAdd" ->
            [threw |-> FALSE,
             set |-> processBulkAddPacket(prev, message).set,
             shapes |-> processBulkAddPacket(prev, message).shapes]
      [] OTHER -> [threw |-> FALSE, set |-> FALSE, shapes |-> prev]

(***************************************************************************)
(* Layers and the reconciliation effect (DrawControl.jsx)                  *)
(***************************************************************************)
\* selectedId before any selection (null).
NullId == -1

\* A layer: its feature, whether the user drew it here, and whether its
\* interactive editing is enabled (layer.editing.enabled()).
Layer(feature, local) == [feature |-> feature, local |-> local, editing |-> FALSE]

\* A handle for a layer object that is not in use.
NewHandle(ls) == CHOOSE h \in 1..(Cardinality(DOMAIN ls) + 1) : h \notin DOMAIN ls

\* f with key k removed / set.
Without(f, k) == [x \in DOMAIN f \ {k} |-> f[x]]
With(f, k, val) == [x \in DOMAIN f \cup {k} |-> IF x = k THEN val ELSE f[x]]

\* Layer objects that nothing refers to any more are dropped.
Collect(ls, lm, di) ==
    [h \in {x \in DOMAIN ls : x \in di \/ \E k \in DOMAIN lm : lm[k] = x} |-> ls[h]]

\* { ...old, ...new } on property maps: a key of new wins when new has it.
mergeProperties(old, new) ==
    [present |-> TRUE,
     id |-> IF new.id # Undefined THEN new.id ELSE old.id,
     color |-> IF new.color # "undefined" THEN new.color ELSE old.color]

\* JSON.stringify(a) !== JSON.stringify(b)
JsonText(x) == IF x.k = "undef" THEN x ELSE JsonRoundTrip(x)
JsonDiffers(a, b) == JsonText(a) # JsonText(b)

\* applyCurrentStyles for one shape: the state it leaves on the layer.
applyStyle(st, shape) ==
    IF shape.id \in DOMAIN st.layerMap
    THEN LET h == st.layerMap[shape.id]
         IN  [st EXCEPT !.layers[h].feature.properties =
                    mergeProperties(@, shape.properties)]
    ELSE st

RECURSIVE applyCurrentStyles(_, _)
applyCurrentStyles(st, currentShapes) ==
    IF currentShapes = <<>> THEN st
    ELSE applyCurrentStyles(applyStyle(st, Head(currentShapes)), Tail(currentShapes))

\* Leaflet's conversion of a cleaned feature to a layer (L.circle, L.marker,
\* L.geoJSON): it yields a layer for the geometry types it knows and throws
\* "Invalid GeoJSON object" otherwise.
createLayerThrows(cleanedFeature) ==
    \/ cleanedFeature.geometry.type \notin {"Point", "LineString", "Polygon", "Circle"}
    \/ ~IsArray(cleanedFeature.geometry.coordinates)

\* A layer handed to removeLayer with its editing left as it was.
keepEditing(layer) == layer

\* Lines 427-433 and 469-475: `if (layer.editing && layer.editing.enabled())
\* layer.editing.disable()`, the state of the layer before it is removed.
disableEditing(layer) == [layer EXCEPT !.editing = FALSE]

\* A layer the pass destroyed: the key it was tracked under, whether its
\* editing was enabled when the pass met it (was) and when removeLayer was
\* called on it (editing).
Destroyed(st, k) ==
    [id |-> k, was |-> st.layers[st.layerMap[k]].editing,
     editing |-> disableEditing(st.layers[st.layerMap[k]]).editing]

\* Lines 423-439: drop the layers whose id is not in the snapshot.
removalPass(st, snapshot) ==
    LET currentShapeIds == {snapshot[i].id : i \in 1..Len(snapshot)}
        gone == {k \in DOMAIN st.layerMap : k \notin currentShapeIds}
    IN  [st EXCEPT !.drawnItems = @ \ {st.layerMap[k] : k \in gone},
                   !.layerMap = [k \in DOMAIN st.layerMap \ gone |-> st.layerMap[k]],
                   !.destroyed = @ \cup {Destroyed(st, k) : k \in gone}]

\* drawnItems.addLayer(layer), line 518: while the edit toolbar is in its
\* edit mode (between EDITSTART and EDITSTOP) it enables editing on every
\* layer added to its feature group.  Lines 521-526 then find the layer
\* enabled and leave it so; otherwise they enable and disable it.
addedLayer(layer) == [layer EXCEPT !.editing = isEditing]

\* Lines 442-538 for one feature of the snapshot.
upsertFeature(st, feature) ==
    LET cleaned == ensurePolygonClosedAndClean(feature)
        cleanedFeature == cleaned.feature
        hasLayer == feature.id \in DOMAIN st.layerMap
        old == st.layers[st.layerMap[feature.id]]
        shouldRecreateLayer ==
            IF hasLayer
            THEN IF HasGeometry(old.feature)
                 THEN \/ old.feature.geometry.type # cleanedFeature.geometry.type
                      \/ JsonDiffers(old.feature.geometry.coordinates,
                                     cleanedFeature.geometry.coordinates)
                 ELSE TRUE
            ELSE TRUE
        removed == IF hasLayer
                   THEN [st EXCEPT !.drawnItems = @ \ {st.layerMap[feature.id]},
                                   !.layerMap = Without(@, feature.id),
                                   !.destroyed = @ \cup {Destroyed(st, feature.id)}]
                   ELSE st
        h == NewHandle(st.layers)
        created == [removed EXCEPT
                        !.layers = With(@, h, addedLayer(Layer(cleanedFeature, FALSE))),
                        !.layerMap = With(@, cleanedFeature.id, h),
                        !.drawnItems = @ \cup {h}]
    IN  IF cleaned.threw THEN [st EXCEPT !.failed = TRUE]
        ELSE IF shouldRecreateLayer
        THEN IF createLayerThrows(cleanedFeature)
             THEN [removed EXCEPT !.failed = TRUE]
             ELSE applyStyle(created, cleanedFeature)
        ELSE applyStyle(st, cleanedFeature)

RECURSIVE upsertPass(_, _)
upsertPass(st, snapshot) ==
    IF snapshot = <<>> \/ st.failed THEN st
    ELSE upsertPass(upsertFeature(st, Head(snapshot)), Tail(snapshot))

\* The reconciliation effect, lines 417-540.  s.id.toString() throws on a
\* feature without id.
reconcile(st, snapshot) ==
    IF \E i \in 1..Len(snapshot) : snapshot[i].id = Undefined
    THEN [st EXCEPT !.failed = TRUE]
    ELSE upsertPass(removalPass(st, snapshot), snapshot)

\* App's render body, line 133: s.properties.type throws on a feature
\* without properties.
renderThrows(snapshot) ==
    \E i \in 1..Len(snapshot) : ~snapshot[i].properties.present

(***************************************************************************)
(* The client: the universe of envelopes and gestures, and the actions     *)
(***************************************************************************)
MaxShapes == 2
MaxStamp == 2
MaxEvents == 5

PointA == Geometry("Point", Pair(0, 0))
PointB == Geometry("Point", Pair(1, 1))
\* An open ring: it passes the handler's check and is closed by the validator.
OpenPolygon == Geometry("Polygon", JArr(<<JArr(<<Pair(0, 0), Pair(1, 0), Pair(1, 1)>>)>>))
ClosedPolygon ==
    Geometry("Polygon", JArr(<<JArr(<<Pair(0, 0), Pair(1, 0), Pair(0, 1), Pair(0, 0)>>)>>))
MovedPolygon ==
    Geometry("Polygon", JArr(<<JArr(<<Pair(0, 0), Pair(1, 1), Pair(0, 1), Pair(0, 0)>>)>>))
\* A ring with a three-element pair: the handler's check rejects it.
BadPolygon ==
    Geometry("Polygon",
             JArr(<<JArr(<<Pair(0, 0), Pair(1, 0), JArr(<<JNum(1), JNum(0), JNum(1)>>)>>)>>))
\* A null ring: the handler's check throws on it.
NullRingPolygon == Geometry("Polygon", JArr(<<JNull>>))

DefaultColor == "#3388ff"
Colors == {"red", "blue"}

WireIds == {Undefined, 1, 2}

\* The features inbound envelopes carry.
WireFeatures ==
    { Feature(1, PointA, Properties(1, "red")),
      Feature(1, PointB, Properties(1, "red")),
      Feature(2, OpenPolygon, Properties(Undefined, "red")),
      Feature(Undefined, PointA, Properties(Undefined, "red")),
      Feature(1, BadPolygon, Properties(1, "red")),
      Feature(1, NullRingPolygon, Properties(1, "red")),
      Feature(1, NoGeometry, Properties(1, "red")) }

\* The arrays bulk payloads carry.
BulkArrays ==
    { <<>>,
      <<Feature(1, PointB, Properties(1, "red"))>>,
      <<Feature(2, OpenPolygon, Properties(Undefined, "red")),
        Feature(1, PointA, Properties(1, "red"))>>,
      <<Feature(1, PointA, Properties(1, "red")),
        Feature(1, PointB, Properties(1, "red"))>> }

BulkPackets ==
    { Message("bulkAdd", Undefined, ArrayData(a)) : a \in BulkArrays }
    \cup { Message("bulkAdd", Undefined, d) :
            d \in {NoData, FeatureData(Feature(1, PointA, Properties(1, "red")))} }

InboundMessages ==
    { Message(t, id, FeatureData(f)) : t \in {"add", "modify"}, id \in WireIds, f \in WireFeatures }
    \cup { Message(t, id, NoData) : t \in {"add", "modify"}, id \in WireIds }
    \cup { Message("remove", id, NoData) : id \in WireIds }
    \cup BulkPackets
    \cup { Message("ping", Undefined, NoData) }

\* What the initial fetch may return.
LoadPackets == BulkPackets \cup {NullPacket, Message("add", Undefined, NoData)}

\* The inbound traffic of the whole-client specification.
ClientMessages ==
    { Message("add", Undefined, FeatureData(Feature(1, PointA, Properties(1, "red")))),
      Message("add", Undefined, FeatureData(Feature(2, OpenPolygon, Properties(Undefined, "red")))),
      Message("modify", 1, FeatureData(Feature(1, PointB, Properties(1, "red")))),
      Message("modify", 2, FeatureData(Feature(Undefined, PointA, Properties(Undefined, "blue")))),
      Message("remove", 1, NoData),
      Message("bulkAdd", Undefined,
              ArrayData(<<Feature(2, OpenPolygon, Properties(Undefined, "red")),
                          Feature(1, PointA, Properties(1, "red"))>>)),
      Message("ping", Undefined, NoData) }

\* OpenPolygon with its ring closed.
TrianglePolygon ==
    Geometry("Polygon", JArr(<<JArr(<<Pair(0, 0), Pair(1, 0), Pair(1, 1), Pair(0, 0)>>)>>))

\* The inbound traffic of the specification without gestures: modify
\* envelopes that change the properties alone, the coordinates alone, and
\* the coordinates to a ring the handler's check rejects.
InboundTraffic ==
    ClientMessages \cup
    { Message("modify", 1, FeatureData(Feature(1, PointA, Properties(1, "blue")))),
      Message("modify", 2, FeatureData(Feature(2, TrianglePolygon, Properties(Undefined, "red")))),
      Message("modify", 2, FeatureData(Feature(2, MovedPolygon, Properties(Undefined, "red")))),
      Message("modify", 2, FeatureData(Feature(2, BadPolygon, Properties(Undefined, "red")))) }

ClientLoadPackets ==
    { NullPacket,
      Message("bulkAdd", Undefined, ArrayData(<<Feature(1, PointA, Properties(1, "red"))>>)) }

\* The geometries layer.toGeoJSON() yields for drawn and edited layers.
DrawnGeometries == {PointA, ClosedPolygon}
EditedGeometry(g) ==
    CASE g = PointA -> PointB
      [] g.type = "Point" -> PointA
      [] g = ClosedPolygon -> MovedPolygon
      [] OTHER -> ClosedPolygon

\* An operation: sent are the envelopes it handed to sendMessage, ids the
\* feature ids of the layers of a gesture, tracked those that were keys of
\* the layer map for a layer of the gesture, destroyed the layers a
\* reconciliation pass destroyed, gone the ids that, while the initial
\* fetch is in flight, an envelope or a gesture has removed last, echo the
\* envelopes of the last gesture that the broker has still to send back.
NoOp ==
    [op |-> "none", msg |-> NoMessage, threw |-> FALSE, sent |-> <<>>, ids |-> {},
     tracked |-> {}, destroyed |-> {}, gone |-> {}, echo |-> <<>>]

Op(op, message, threw) ==
    [op |-> op, msg |-> message, threw |-> threw, sent |-> <<>>, ids |-> {}, tracked |-> {},
     destroyed |-> {}, gone |-> IF loaded THEN {} ELSE lastOp.gone, echo |-> <<>>]

Gesture(op, hs, sent) ==
    [op |-> op, msg |-> NoMessage, threw |-> FALSE, sent |-> sent,
     ids |-> {layers[h].feature.id : h \in hs},
     tracked |-> {k \in DOMAIN layerMap : layerMap[k] \in hs},
     destroyed |-> {}, gone |-> IF loaded THEN {} ELSE lastOp.gone, echo |-> sent]

\* The operation op that removed the ids removed and left the store after.
Removal(op, removed, after) ==
    [op EXCEPT !.gone = IF loaded THEN {}
                        ELSE (@ \cup removed) \ {after[i].id : i \in 1..Len(after)}]

\* WebSocketService.sendMessage(type, data, id) as the gestures call it.
Sent(type, data, id) == Message(type, id, data)

\* The history of the last operation, kept while observe is set.
Record(op) ==
    /\ lastOp' = IF observe THEN op ELSE lastOp
    /\ prevShapes' = IF observe THEN shapes ELSE prevShapes
    /\ observe' = observe

LayerState == [layers |-> layers, layerMap |-> layerMap, drawnItems |-> drawnItems,
               failed |-> failed, destroyed |-> {}]

SetLayerState(st) ==
    /\ layers' = Collect(st.layers, st.layerMap, st.drawnItems)
    /\ layerMap' = st.layerMap
    /\ drawnItems' = st.drawnItems
    /\ failed' = st.failed

InitClient ==
    /\ observe \in BOOLEAN
    /\ shapes = <<>>
    /\ selectedId = NullId
    /\ isEditing = FALSE
    /\ loaded = FALSE
    /\ dirty = FALSE
    /\ failed = FALSE
    /\ shapesRef = <<>>
    /\ layers = <<>>
    /\ layerMap = <<>>
    /\ drawnItems = {}
    /\ lastId = 0
    /\ lastOp = NoOp
    /\ prevShapes = <<>>

\* The subscription callback hands a parsed envelope to
\* handleIncomingMessage; op and echo are what the history records of it.
Handle(op, message, echo) ==
    /\ ~failed
    /\ LET r == handleIncomingMessage(shapes, message)
       IN  /\ Len(r.shapes) <= MaxShapes
           /\ shapes' = r.shapes
           /\ dirty' = (dirty \/ r.set)
           /\ Record([Removal(Op(op, message, r.threw),
                               IF message.type = "remove" THEN {message.id} ELSE {},
                               r.shapes)
                        EXCEPT !.echo = echo])
    /\ UNCHANGED <<selectedId, isEditing, loaded, failed, shapesRef, layers, layerMap,
                   drawnItems, lastId, harnessVars>>

\* An envelope of another client, or of the broker.
Receive(message) == Handle("receive", message, <<>>)

\* An envelope as it comes back from the broker: its payload went through
\* JSON.stringify and JSON.parse.
Wire(message) == [message EXCEPT !.data.feature = JsonCopy(@)]

\* The broker sends back the next envelope the last gesture published.
Echo ==
    /\ lastOp.echo # <<>>
    /\ Handle("echo", Wire(Head(lastOp.echo)), Tail(lastOp.echo))

\* loadMap: the initial fetch completes and its packet, if any, is applied.
LoadInitial(packet) ==
    /\ ~failed
    /\ ~loaded
    /\ loaded' = TRUE
    /\ LET r == IF packet = NullPacket
                THEN [set |-> FALSE, shapes |-> shapes]
                ELSE processBulkAddPacket(shapes, packet)
       IN  /\ shapes' = r.shapes
           /\ dirty' = (dirty \/ r.set)
    /\ Record(Op("load", packet, FALSE))
    /\ UNCHANGED <<selectedId, isEditing, failed, shapesRef, layers, layerMap,
                   drawnItems, lastId, harnessVars>>

\* React renders the committed store and runs the effects: shapesRef is
\* updated, then the reconciliation effect runs.
Render ==
    /\ ~failed
    /\ dirty
    /\ dirty' = FALSE
    /\ IF renderThrows(shapes)
       THEN /\ failed' = TRUE
            /\ UNCHANGED <<shapesRef, layers, layerMap, drawnItems>>
            /\ Record(Op("render", NoMessage, FALSE))
       ELSE /\ shapesRef' = shapes
            /\ SetLayerState(reconcile(LayerState, shapes))
            /\ Record([Op("render", NoMessage, FALSE) EXCEPT
                            !.destroyed = reconcile(LayerState, shapes).destroyed,
                            !.echo = lastOp.echo])
    /\ UNCHANGED <<shapes, selectedId, isEditing, loaded, lastId, harnessVars>>

\* handleCreate: the user finished drawing a layer; L.Util.stamp gives it
\* the next unused Leaflet id, which becomes the feature's id.  Choosing a
\* draw tool ends the edit mode of the toolbar (EDITSTOP), so a layer is
\* drawn with the editing flag off.
Create(id, geometry) ==
    /\ ~failed
    /\ ~isEditing
    /\ lastId < id
    /\ id <= MaxStamp
    /\ Len(shapes) < MaxShapes
    /\ lastId' = id
    /\ LET geoJson == Feature(id, geometry, Properties(id, DefaultColor))
           h == NewHandle(layers)
       IN  /\ SetLayerState([LayerState EXCEPT
                    !.layers = With(@, h, Layer(geoJson, TRUE)),
                    !.drawnItems = @ \cup {h},
                    !.layerMap = With(@, id, h)])
           /\ shapes' = Append(shapes, geoJson)
           /\ Record(Removal(Gesture("create", {},
                                      <<Sent("add", FeatureData(geoJson), Undefined)>>),
                              {}, Append(shapes, geoJson)))
    /\ dirty' = TRUE
    /\ UNCHANGED <<selectedId, isEditing, loaded, shapesRef, harnessVars>>

\* handleEdit for one layer without the `if (!existingShape) return` of
\* lines 319-322: a layer without a stored feature is sent as a modify of
\* its geometry alone.
editLayerUnchecked(acc, h) ==
    LET layer == acc.layers[h]
        found == FindIndex(shapesRef, layer.feature.id)
        base == IF found = 0 THEN NoFeature ELSE shapesRef[found]
        updatedFeature == [base EXCEPT !.geometry = EditedGeometry(layer.feature.geometry)]
    IN  [layers |-> [acc.layers EXCEPT ![h].feature = updatedFeature],
         sent |-> Append(acc.sent,
                         Sent("modify", FeatureData(updatedFeature), updatedFeature.id)),
         shapes |-> [i \in 1..Len(acc.shapes) |->
                       IF found # 0 /\ acc.shapes[i].id = base.id
                       THEN updatedFeature ELSE acc.shapes[i]],
         set |-> TRUE]

\* handleEdit for one layer of the gesture: [layers, sent, shapes] after it.
editLayer(acc, h) ==
    LET layer == acc.layers[h]
        found == FindIndex(shapesRef, layer.feature.id)
        existingShape == shapesRef[found]
        updatedFeature == [existingShape EXCEPT !.geometry = EditedGeometry(layer.feature.geometry)]
    IN  IF found = 0 THEN acc
        ELSE [layers |-> [acc.layers EXCEPT ![h].feature = updatedFeature],
              sent |-> Append(acc.sent,
                              Sent("modify", FeatureData(updatedFeature), updatedFeature.id)),
              shapes |-> [i \in 1..Len(acc.shapes) |->
                            IF acc.shapes[i].id = existingShape.id
                            THEN updatedFeature ELSE acc.shapes[i]],
              set |-> TRUE]

\* handleDelete for one layer of the gesture: [layerMap, shapes] after it.
deleteLayer(acc, h) ==
    LET layer == layers[h]
    IN  IF layer.feature.properties.present
        THEN [layerMap |-> IF layer.feature.properties.id \in DOMAIN acc.layerMap
                           THEN Without(acc.layerMap, layer.feature.properties.id)
                           ELSE acc.layerMap,
              sent |-> Append(acc.sent, Sent("remove", NoData, layer.feature.properties.id)),
              shapes |-> Filter(acc.shapes, layer.feature.properties.id),
              set |-> TRUE]
        ELSE acc

\* layers.eachLayer(f): f applied to the layers of hs in the order of their handles.
RECURSIVE EachLayer(_, _, _)
EachLayer(f(_, _), acc, hs) ==
    IF hs = {} THEN acc
    ELSE LET h == CHOOSE x \in hs : \A y \in hs : x <= y
         IN  EachLayer(f, f(acc, h), hs \ {h})

\* handleEdit: the user saved an edit of the layers hs.
Edit(hs) ==
    /\ ~failed
    /\ hs # {}
    /\ LET r == EachLayer(editLayer,
                          [layers |-> layers, sent |-> <<>>, shapes |-> shapes, set |-> FALSE], hs)
       IN  /\ layers' = r.layers
           /\ shapes' = r.shapes
           /\ dirty' = (dirty \/ r.set)
           /\ Record(Gesture("edit", hs, r.sent))
    /\ UNCHANGED <<selectedId, isEditing, loaded, failed, shapesRef, layerMap, drawnItems,
                   lastId, harnessVars>>

\* handleDelete: the user deleted the layers hs, which the draw toolbar has
\* already taken out of drawnItems.  Choosing the delete tool ends the edit
\* mode of the toolbar.
Delete(hs) ==
    /\ ~failed
    /\ ~isEditing
    /\ hs # {}
    /\ LET r == EachLayer(deleteLayer,
                          [layerMap |-> layerMap, sent |-> <<>>, shapes |-> shapes, set |-> FALSE], hs)
       IN  /\ SetLayerState([LayerState EXCEPT !.layerMap = r.layerMap,
                                               !.drawnItems = @ \ hs])
           /\ shapes' = r.shapes
           /\ dirty' = (dirty \/ r.set)
           /\ Record(Removal(Gesture("delete", hs, r.sent),
                              {r.sent[i].id : i \in 1..Len(r.sent)}, r.shapes))
    /\ UNCHANGED <<selectedId, isEditing, loaded, shapesRef, lastId, harnessVars>>

\* The edit-enable effect without its enabling branch (lines 547-549): it
\* only disables the layers that are not the selected one.
editEnableEffectDisableOnly(st, selected, on) ==
    [st EXCEPT !.layers =
        [h \in DOMAIN st.layers |->
            IF /\ \E k \in DOMAIN st.layerMap : st.layerMap[k] = h
               /\ ~(st.layers[h].feature.id = selected /\ on)
            THEN [st.layers[h] EXCEPT !.editing = FALSE]
            ELSE st.layers[h]]]

\* The edit-enable effect, lines 542-558, which runs when selectedId or
\* isEditing changed: of the layers of the layer map, the one whose feature
\* has the selected id is enabled while the editing flag is on, and every
\* other one is disabled.
editEnableEffect(st, selected, on) ==
    [st EXCEPT !.layers =
        [h \in DOMAIN st.layers |->
            IF \E k \in DOMAIN st.layerMap : st.layerMap[k] = h
            THEN [st.layers[h] EXCEPT !.editing = (st.layers[h].feature.id = selected /\ on)]
            ELSE st.layers[h]]]

\* The edit toolbar entering (on) or leaving its edit mode: it enables or
\* disables editing on every layer of its feature group, drawnItems.
toolbarEditMode(st, on) ==
    [st EXCEPT !.layers =
        [h \in DOMAIN st.layers |->
            IF h \in st.drawnItems THEN [st.layers[h] EXCEPT !.editing = on] ELSE st.layers[h]]]

\* The click handler of a layer: a drawn layer reports
\* layer.feature.properties.id, a reconciled one its feature's id.
Select(h) ==
    /\ ~failed
    /\ selectedId' = IF layers[h].local
                     THEN layers[h].feature.properties.id
                     ELSE layers[h].feature.id
    /\ selectedId' # selectedId
    /\ SetLayerState(editEnableEffect(LayerState, selectedId', isEditing))
    /\ Record(Op("select", NoMessage, FALSE))
    /\ UNCHANGED <<shapes, isEditing, loaded, dirty, shapesRef, lastId, harnessVars>>

\* editStartHandler / editStopHandler: the edit toolbar enters its edit mode
\* only when its feature group holds a layer.
SetEditing(on) ==
    /\ ~failed
    /\ isEditing # on
    /\ on => drawnItems # {}
    /\ isEditing' = on
    /\ SetLayerState(editEnableEffect(
            toolbarEditMode(applyCurrentStyles(LayerState, shapesRef), on), selectedId, on))
    /\ Record(Op("editing", NoMessage, FALSE))
    /\ UNCHANGED <<shapes, selectedId, loaded, dirty, shapesRef, lastId, harnessVars>>

\* The setShapes updater of updateShapeProperty('color', value), lines
\* 210-222: every shape of the selected id is replaced by a copy with the
\* property set, and a modify envelope is sent for each as it is met.
updateShapeProperty(prev, selected, value) ==
    LET updatedShape(i) ==
            [prev[i] EXCEPT !.properties = [@ EXCEPT !.present = TRUE, !.color = value]]
        matches == SelectSeq([i \in 1..Len(prev) |-> i], LAMBDA i : prev[i].id = selected)
    IN  [shapes |-> [i \in 1..Len(prev) |->
                        IF prev[i].id = selected THEN updatedShape(i) ELSE prev[i]],
         sent |-> [j \in 1..Len(matches) |->
                        Sent("modify", FeatureData(updatedShape(matches[j])),
                             updatedShape(matches[j]).id)]]

\* updateShapeProperty('color', value), from the panel shown while
\* isEditing && selectedShape.
UpdateProperty(value) ==
    /\ ~failed
    /\ isEditing
    /\ FindIndex(shapesRef, selectedId) # 0
    /\ shapes' = updateShapeProperty(shapes, selectedId, value).shapes
    /\ dirty' = TRUE
    /\ Record([Op("updateProperty", NoMessage, FALSE) EXCEPT
                    !.sent = updateShapeProperty(shapes, selectedId, value).sent,
                    !.echo = updateShapeProperty(shapes, selectedId, value).sent])
    /\ UNCHANGED <<selectedId, isEditing, loaded, failed, shapesRef, layers, layerMap,
                   drawnItems, lastId, harnessVars>>

(***************************************************************************)
(* The statistics of the selected shape (App.jsx): getShapeStats and the   *)
(* area line of the statistics panel.  Coordinates are whole metres, an    *)
(* area is the exact fraction num / den, and a number printed with         *)
(* toFixed(2) is its count of hundredths.                                  *)
(***************************************************************************)
SQ_METERS_TO_SQ_KM == 1000000

Ratio(num, den) == [num |-> num, den |-> den]

Abs(n) == IF n < 0 THEN 0 - n ELSE n

\* The callback of the reduce of lines 29-32 at index i (from 1): the cross
\* term of vertex i and the vertex after it, the first one after the last.
crossTerm(coords, i) ==
    LET p1 == coords[i]
        p2 == coords[(i % Len(coords)) + 1]
    IN  p1.a[1].n * p2.a[2].n - p2.a[1].n * p1.a[2].n

\* coords.reduce(..., 0) over the first i vertices.
RECURSIVE reduceCross(_, _)
reduceCross(coords, i) ==
    IF i = 0 THEN 0 ELSE reduceCross(coords, i - 1) + crossTerm(coords, i)

\* getShapeStats, lines 17-68, as far as the area goes: null without a
\* shape, the signed shoelace area in square kilometres for a Polygon, and
\* no area for a Point.
getShapeStats(shape) ==
    IF shape = NoFeature THEN [null |-> TRUE, hasArea |-> FALSE, area |-> Ratio(0, 1)]
    ELSE IF shape.geometry.type = "Polygon"
    THEN LET coords == shape.geometry.coordinates.a[1].a
         IN  [null |-> FALSE, hasArea |-> TRUE,
              area |-> Ratio(reduceCross(coords, Len(coords)), 2 * SQ_METERS_TO_SQ_KM)]
    ELSE [null |-> FALSE, hasArea |-> FALSE, area |-> Ratio(0, 1)]

\* The area handed to toFixed with its sign.
MathSigned(q) == q

\* Math.abs
MathAbs(q) == Ratio(Abs(q.num), q.den)

\* q.toFixed(2), in hundredths: the nearest one, and the larger of two that
\* are equally near.
toFixed2(q) ==
    IF q.num < 0
    THEN 0 - ((200 * Abs(q.num) + q.den) \div (2 * q.den))
    ELSE (200 * q.num + q.den) \div (2 * q.den)

\* Line 374, `stats.area && <p>Area: {Math.abs(stats.area).toFixed(2)}
\* km2</p>`: nothing for an undefined area, the bare 0 for a zero area, and
\* the line otherwise.
AreaLine(stats) ==
    IF ~stats.hasArea THEN [ran |-> TRUE, kind |-> "none", hundredths |-> 0]
    ELSE IF stats.area.num = 0 THEN [ran |-> TRUE, kind |-> "zero", hundredths |-> 0]
    ELSE [ran |-> TRUE, kind |-> "line", hundredths |-> toFixed2(MathAbs(stats.area))]

(***************************************************************************)
(* The message channel: WebSocketService.jsx.  Each connect() that finds   *)
(* no client makes one SockJS socket and one STOMP Client over it; a       *)
(* session of the model is that pair.  The Client asks webSocketFactory    *)
(* for a socket at every connection attempt, opens the STOMP connection    *)
(* when the socket opens, and after an unexpected close schedules another  *)
(* attempt reconnectDelay later for as long as it is active.               *)
(***************************************************************************)
MaxSessions == 2
MaxSends == 2
MaxDrops == 1
MaxCalls == 5

\* this.client = null, this.messageCallback = null
NoClient == 0
NoHandler == 0
\* The handler App registers: handleIncomingMessage.
AppHandler == 1

\* new SockJS(...) and new Client({...}) of connect(callback): the socket is
\* connecting, the client is not yet activated.
NewSession(callback) ==
    [ state |-> "inactive",      \* the Client's activation state
      socket |-> "connecting",   \* readyState of the SockJS socket
      connected |-> FALSE,       \* client.connected
      subscribed |-> FALSE,      \* the subscription to /topic/mapUpdate is live
      callback |-> callback,     \* connect was given a callback
      ready |-> 0,               \* the number of calls of that callback
      connects |-> 0,            \* the number of onConnect calls
      timer |-> FALSE,           \* a reconnection attempt is scheduled
      attempts |-> 0 ]           \* the number of reconnection attempts made

\* A factory that makes a socket per attempt: () => new SockJS(...).
webSocketFactoryFresh(session) == "connecting"

\* webSocketFactory: () => socket.  Every connection attempt of a session
\* gets the one socket connect() made, in whatever state it is by then.
webSocketFactory(session) == session.socket

\* client.activate()
activate(session) == [session EXCEPT !.state = "active"]

\* client.deactivate(): a connected client sends DISCONNECT and closes the
\* socket when the broker's receipt arrives; otherwise the socket is
\* discarded at once.  No further reconnection is attempted.
deactivate(session) ==
    IF session.state # "active" THEN session
    ELSE IF session.connected
         THEN [session EXCEPT !.state = "deactivating", !.timer = FALSE]
         ELSE [session EXCEPT !.state = "inactive", !.timer = FALSE,
                              !.socket = "closed", !.subscribed = FALSE]

\* The onConnect callback of lines 20-34.
onConnect(session) ==
    [session EXCEPT !.connected = TRUE,
                    !.subscribed = TRUE,
                    !.connects = @ + 1,
                    !.ready = IF session.callback THEN @ + 1 ELSE @]

\* What sendMessage reads: this.client && this.client.connected
IsConnected == client # NoClient /\ sessions[client].connected

\* The operation performed last: its name and what it did.
ChanOp(op, session, flags) ==
    [ op |-> op,
      old |-> (op = "deliver" /\ session # client),  \* deliver: not this.client's session
      type |-> flags.type,          \* send: the type argument
      isArray |-> flags.isArray,    \* send: Array.isArray(data)
      did |-> flags.did,            \* send: published; connect: made a session;
                                    \* deliver: called the handler
      changed |-> flags.changed ]   \* client, subscription, handler or a session
                                    \* changed; deliver: or the store did

Flags(type, isArray, did, changed) ==
    [type |-> type, isArray |-> isArray, did |-> did, changed |-> changed]

ServiceChanged ==
    <<client, subscription, messageCallback, sessions>>' #
    <<client, subscription, messageCallback, sessions>>

InitChannel ==
    /\ client = NoClient
    /\ subscription = NoClient
    /\ messageCallback = NoHandler
    /\ sessions = <<>>
    /\ sends = 0
    /\ sentConnected = {}
    /\ sentAfterDisconnect = {}
    /\ published = <<>>
    /\ disconnected = FALSE
    /\ drops = 0
    /\ chanOp = ChanOp("none", NoClient, Flags("none", FALSE, FALSE, FALSE))

\* A connect without the `if (this.client) return` of line 12.
connectAgain(callback) ==
    /\ Len(sessions) < MaxSessions
    /\ sessions' = Append(sessions, activate(NewSession(callback)))
    /\ client' = Len(sessions) + 1
    /\ disconnected' = FALSE
    /\ UNCHANGED <<subscription, messageCallback, sends, sentConnected,
                   sentAfterDisconnect, published, drops>>
    /\ chanOp' = ChanOp("connect", client', Flags("none", FALSE, client = NoClient, ServiceChanged))

\* connect(callback), lines 11-51.
connect(callback) ==
    /\ IF client # NoClient
       THEN UNCHANGED <<client, sessions>>
       ELSE /\ Len(sessions) < MaxSessions
            /\ sessions' = Append(sessions, activate(NewSession(callback)))
            /\ client' = Len(sessions) + 1
    /\ disconnected' = FALSE
    /\ UNCHANGED <<subscription, messageCallback, sends, sentConnected,
                   sentAfterDisconnect, published, drops>>
    /\ chanOp' = ChanOp("connect", client', Flags("none", FALSE, client = NoClient, ServiceChanged))

\* registerMessageHandler(callback), lines 53-56.
registerMessageHandler(callback) ==
    /\ messageCallback' = callback
    /\ UNCHANGED <<client, subscription, sessions, sends, sentConnected,
                   sentAfterDisconnect, published, disconnected, drops>>
    /\ chanOp' = ChanOp("register", client, Flags("none", FALSE, FALSE, ServiceChanged))

\* The types sendMessage builds a payload for, and whether it publishes.
SendTypes == {"add", "modify", "remove", "bulkAdd"}
\* A send without the connection test of line 60.
sendPublishesUnconnected(type, isArray) ==
    /\ type \in SendTypes
    /\ type = "bulkAdd" => isArray

\* A send without the Array.isArray test of line 86.
sendPublishesAnyData(type, isArray) ==
    /\ IsConnected
    /\ type \in SendTypes

sendPublishes(type, isArray) ==
    /\ IsConnected
    /\ type \in SendTypes
    /\ type = "bulkAdd" => isArray

\* sendMessage(type, data, id), lines 58-103.
sendMessage(type, isArray) ==
    /\ sends < MaxSends
    /\ sends' = sends + 1
    /\ sentConnected' = IF IsConnected THEN sentConnected \cup {sends'} ELSE sentConnected
    /\ sentAfterDisconnect' =
            IF disconnected THEN sentAfterDisconnect \cup {sends'} ELSE sentAfterDisconnect
    /\ published' = IF sendPublishes(type, isArray)
                    THEN Append(published, [call |-> sends', type |-> type, session |-> client])
                    ELSE published
    /\ UNCHANGED <<client, subscription, messageCallback, sessions, disconnected, drops>>
    /\ chanOp' = ChanOp("send", client,
                        Flags(type, isArray, sendPublishes(type, isArray), ServiceChanged))

\* A disconnect that deactivates the client and keeps this.client.
disconnectKeepsClient ==
    /\ IF client # NoClient
       THEN /\ sessions' = [sessions EXCEPT ![client] = deactivate(@)]
            /\ client' = client
       ELSE UNCHANGED <<client, sessions>>
    /\ disconnected' = TRUE
    /\ UNCHANGED <<subscription, messageCallback, sends, sentConnected,
                   sentAfterDisconnect, published, drops>>
    /\ chanOp' = ChanOp("disconnect", client, Flags("none", FALSE, FALSE, ServiceChanged))

\* disconnect(), lines 105-112.
disconnect ==
    /\ IF client # NoClient
       THEN /\ sessions' = [sessions EXCEPT ![client] = deactivate(@)]
            /\ client' = NoClient
       ELSE UNCHANGED <<client, sessions>>
    /\ disconnected' = TRUE
    /\ UNCHANGED <<subscription, messageCallback, sends, sentConnected,
                   sentAfterDisconnect, published, drops>>
    /\ chanOp' = ChanOp("disconnect", client, Flags("none", FALSE, FALSE, ServiceChanged))

\* The socket of session s opens.
SocketOpens(s) ==
    /\ sessions[s].socket = "connecting"
    /\ sessions' = [sessions EXCEPT ![s].socket = "open"]
    /\ UNCHANGED <<client, subscription, messageCallback, sends, sentConnected,
                   sentAfterDisconnect, published, disconnected, drops>>
    /\ chanOp' = ChanOp("open", s, Flags("none", FALSE, FALSE, TRUE))

\* The broker accepts the STOMP connection of session s: onConnect runs.
StompConnected(s) ==
    /\ sessions[s].state = "active"
    /\ sessions[s].socket = "open"
    /\ ~sessions[s].connected
    /\ sessions' = [sessions EXCEPT ![s] = onConnect(@)]
    /\ subscription' = s
    /\ UNCHANGED <<client, messageCallback, sends, sentConnected,
                   sentAfterDisconnect, published, disconnected, drops>>
    /\ chanOp' = ChanOp("onConnect", s, Flags("none", FALSE, FALSE, TRUE))

\* The socket of session s closes without deactivate() having asked for it;
\* an active Client schedules a reconnection attempt.
SocketCloses(s) ==
    /\ drops < MaxDrops
    /\ drops' = drops + 1
    /\ sessions[s].socket \in {"connecting", "open"}
    /\ sessions' = [sessions EXCEPT
            ![s].socket = "closed",
            ![s].connected = FALSE,
            ![s].subscribed = FALSE,
            ![s].timer = (sessions[s].state = "active"),
            ![s].state = IF @ = "deactivating" THEN "inactive" ELSE @]
    /\ UNCHANGED <<client, subscription, messageCallback, sends, sentConnected,
                   sentAfterDisconnect, published, disconnected>>
    /\ chanOp' = ChanOp("close", s, Flags("none", FALSE, FALSE, TRUE))

\* reconnectDelay has passed: the Client of session s makes its next
\* connection attempt on the socket webSocketFactory returns.
Reconnect(s) ==
    /\ sessions[s].state = "active"
    /\ sessions[s].timer
    /\ sessions' = [sessions EXCEPT
            ![s].timer = FALSE,
            ![s].attempts = @ + 1,
            ![s].socket = webSocketFactory(sessions[s])]
    /\ UNCHANGED <<client, subscription, messageCallback, sends, sentConnected,
                   sentAfterDisconnect, published, disconnected, drops>>
    /\ chanOp' = ChanOp("reconnect", s, Flags("none", FALSE, FALSE, TRUE))

\* The broker's receipt for the DISCONNECT of session s arrives: the socket
\* is closed and the session is over.
ReceiptArrives(s) ==
    /\ sessions[s].state = "deactivating"
    /\ sessions[s].socket = "open"
    /\ sessions' = [sessions EXCEPT
            ![s].socket = "closed",
            ![s].connected = FALSE,
            ![s].subscribed = FALSE,
            ![s].state = "inactive"]
    /\ UNCHANGED <<client, subscription, messageCallback, sends, sentConnected,
                   sentAfterDisconnect, published, disconnected, drops>>
    /\ chanOp' = ChanOp("receipt", s, Flags("none", FALSE, FALSE, TRUE))

\* The envelopes the broker broadcasts in the channel specification.
ChannelMessages ==
    { Message("add", Undefined, FeatureData(Feature(1, PointA, Properties(1, "red")))) }

\* The body of a MESSAGE frame: the JSON text of an envelope, or that text
\* cut short, which is no JSON.
Body(message) == [json |-> TRUE, value |-> message]
Truncated(message) == [json |-> FALSE, value |-> message]

ChannelBodies ==
    { Body(m) : m \in ChannelMessages } \cup { Truncated(m) : m \in ChannelMessages }

\* A parser that reads what it can of a text that is no JSON.
JSONparseLenient(body) == [threw |-> FALSE, value |-> body.value]

\* JSON.parse(message.body), line 25: it throws a SyntaxError on a text that
\* is no JSON.
JSONparse(body) == [threw |-> ~body.json, value |-> body.value]

\* A MESSAGE frame arrives on the subscription of session s: lines 23-32.
\* The handler is called inside the try block, after the body is parsed.
Deliver(s, body) ==
    /\ sessions[s].socket = "open"
    /\ sessions[s].subscribed
    /\ IF messageCallback # NoHandler /\ ~JSONparse(body).threw
       THEN Receive(JSONparse(body).value)
       ELSE UNCHANGED <<clientVars, harnessVars>>
    /\ UNCHANGED <<client, subscription, messageCallback, sessions, sends, sentConnected,
                   sentAfterDisconnect, published, disconnected, drops>>
    /\ chanOp' = ChanOp("deliver", s,
                        Flags(IF body.json THEN body.value.type ELSE "malformed", FALSE,
                              messageCallback # NoHandler /\ ~JSONparse(body).threw,
                              ServiceChanged \/ shapes' # shapes))

\* The statistics panel before getShapeStats has run.
NoStats == [ran |-> FALSE, kind |-> "none", hundredths |-> 0]

StatsIdle ==
    /\ statsIn = NoFeature
    /\ statsOut = NoStats

\* No second client.
ReplicasIdle ==
    /\ replicas = <<>>
    /\ broadcast = <<>>

HarnessIdle ==
    /\ cleanIn = NoFeature
    /\ cleanOut = [ran |-> FALSE, threw |-> FALSE, feature |-> NoFeature]
    /\ StatsIdle
    /\ ReplicasIdle

\* The whole client, without the history of the last operation.
Init == InitClient /\ ~observe /\ HarnessIdle /\ InitChannel /\ events = 0

\* An event A of the client (an inbound envelope, the end of the initial
\* fetch, a gesture of the user): every committed update is rendered before
\* the next event is handled, and a behaviour handles at most MaxEvents events.
Event(A) ==
    ~dirty /\ events < MaxEvents /\ A /\ events' = events + 1 /\ UNCHANGED channelVars

Next ==
    \/ \E message \in ClientMessages : Event(Receive(message))
    \/ \E packet \in ClientLoadPackets : Event(LoadInitial(packet))
    \/ \E id \in 1..MaxStamp, geometry \in DrawnGeometries : Event(Create(id, geometry))
    \/ \E hs \in SUBSET drawnItems : Event(Edit(hs))
    \/ \E hs \in SUBSET drawnItems : Event(Delete(hs))
    \/ \E h \in drawnItems : Event(Select(h))
    \/ \E on \in BOOLEAN : Event(SetEditing(on))
    \/ \E value \in Colors : Event(UpdateProperty(value))
    \/ Render /\ events' = events /\ UNCHANGED channelVars

Spec == Init /\ [][Next]_vars

\* The store under inbound traffic alone, with the history of the last
\* operation recorded.
InitStore == InitClient /\ observe /\ HarnessIdle /\ InitChannel /\ events = 0

NextStore ==
    \/ \E message \in InboundMessages : Receive(message) /\ events' = events /\ UNCHANGED channelVars
    \/ \E packet \in LoadPackets : LoadInitial(packet) /\ events' = events /\ UNCHANGED channelVars

SpecStore == InitStore /\ [][NextStore]_vars

\* The whole client with the history of the last operation recorded.
SpecGestures == InitStore /\ [][Next]_vars

\* The whole client with the echoes of its own envelopes: the broker sends
\* each envelope of a gesture back before the next event of the client.
NextEcho ==
    \/ Next
    \/ ~dirty /\ Echo /\ events' = events /\ UNCHANGED channelVars

SpecEcho == InitStore /\ [][NextEcho]_vars

\* Inbound traffic alone: envelopes, the initial payload and the renders
\* between them, with no gesture of the user.
NextInbound ==
    \/ \E message \in InboundTraffic : Event(Receive(message))
    \/ \E packet \in ClientLoadPackets : Event(LoadInitial(packet))
    \/ Render /\ events' = events /\ UNCHANGED channelVars

SpecInbound == InitStore /\ [][NextInbound]_vars

\* The channel on its own: the calls of the service in any order, the
\* events of the transport, and the frames the broker delivers.  A socket
\* that is connecting opens, the broker answers, and a scheduled
\* reconnection attempt is made.
\* A call of the service by the application; a behaviour makes at most
\* MaxCalls of them.
Call(A) ==
    events < MaxCalls /\ A /\ events' = events + 1 /\ UNCHANGED <<clientVars, harnessVars>>

\* An event of the transport.
Transport(A) == A /\ UNCHANGED <<clientVars, harnessVars, events>>

NextChannel ==
    \/ \E callback \in BOOLEAN : Call(connect(callback))
    \/ Call(registerMessageHandler(AppHandler))
    \/ \E type \in SendTypes \cup {"ping"}, isArray \in BOOLEAN :
            (isArray => type = "bulkAdd") /\ Call(sendMessage(type, isArray))
    \/ Call(disconnect)
    \/ \E s \in DOMAIN sessions : Transport(SocketOpens(s))
    \/ \E s \in DOMAIN sessions : Transport(StompConnected(s))
    \/ \E s \in DOMAIN sessions : Transport(SocketCloses(s))
    \/ \E s \in DOMAIN sessions : Transport(Reconnect(s))
    \/ \E s \in DOMAIN sessions : Transport(ReceiptArrives(s))
    \/ \E s \in DOMAIN sessions, body \in ChannelBodies :
            Deliver(s, body) /\ events' = events

TransportFairness ==
    \A s \in 1..MaxSessions :
        /\ WF_vars(s \in DOMAIN sessions /\ Transport(SocketOpens(s)))
        /\ WF_vars(s \in DOMAIN sessions /\ Transport(StompConnected(s)))
        /\ WF_vars(s \in DOMAIN sessions /\ Transport(Reconnect(s)))
        /\ WF_vars(s \in DOMAIN sessions /\ Transport(ReceiptArrives(s)))

SpecChannel == Init /\ [][NextChannel]_vars /\ TransportFairness

(***************************************************************************)
(* The message channel                                                     *)
(***************************************************************************)
\* C14: connect is idempotent: a connect that finds a client changes
\* nothing, and no session but this.client's is active, so connect calls
\* without a disconnect between them leave at most one session.
C14_ConnectIdempotent ==
    /\ \A s \in DOMAIN sessions : s # client => sessions[s].state # "active"
    /\ (chanOp.op = "connect" /\ ~chanOp.did) => ~chanOp.changed
    /\ disconnected \/ Len(sessions) <= 1 \/ \E s \in DOMAIN sessions : sessions[s].state # "active"

\* connect was called on a connected client and made no second session.
C14_Witness ==
    /\ chanOp.op = "connect"
    /\ ~chanOp.did
    /\ Len(sessions) = 1
    /\ client = 1
    /\ sessions[1].connected
    /\ sessions[1].subscribed

\* C15: the callback given to a connect that made a session is called once
\* when the connection succeeds, and not again on any later connection event
\* of that session.
C15_ReadyOnce ==
    \A s \in DOMAIN sessions :
        sessions[s].ready = IF sessions[s].callback /\ sessions[s].connects >= 1 THEN 1 ELSE 0

\* The callback was called once, the connection was then lost and the
\* client has made a reconnection attempt.
C15_Witness ==
    \E s \in DOMAIN sessions :
        /\ sessions[s].callback
        /\ sessions[s].ready = 1
        /\ sessions[s].attempts >= 1

\* C16: a send made while the client is not connected publishes nothing,
\* then or after a later connection: every published envelope comes from a
\* send made while connected, and from one send only.
C16_NoQueue ==
    /\ \A i \in 1..Len(published) : published[i].call \in sentConnected
    /\ \A i, j \in 1..Len(published) : published[i].call = published[j].call => i = j

\* A send was made while not connected, the client is connected by now and
\* has published a later send, and the earlier one was not published.
C16_Witness ==
    /\ IsConnected
    /\ published # <<>>
    /\ \E call \in 1..sends :
          /\ call \notin sentConnected
          /\ \A i \in 1..Len(published) : published[i].call > call

\* C17: a send of bulkAdd with data that is no array, or of a type other
\* than add, modify, remove and bulkAdd, publishes nothing and leaves the
\* client, the subscription, the handler and the sessions as they were.
C17_InvalidSend ==
    ( /\ chanOp.op = "send"
      /\ \/ chanOp.type \notin {"add", "modify", "remove", "bulkAdd"}
         \/ chanOp.type = "bulkAdd" /\ ~chanOp.isArray )
    => /\ ~chanOp.did
       /\ ~chanOp.changed
       /\ \A i \in 1..Len(published) : published[i].call # sends

\* A bulkAdd of data that is no array was sent on a connected client.
C17_Witness ==
    /\ chanOp.op = "send"
    /\ chanOp.type = "bulkAdd"
    /\ ~chanOp.isArray
    /\ IsConnected
    /\ \A i \in 1..Len(published) : published[i].call # sends

\* C18: after disconnect() there is no client, so no send publishes until
\* connect is called; that connect makes a new, active session, and what is
\* published afterwards goes through the session that is this.client.
C18_DisconnectThenConnect ==
    /\ disconnected => client = NoClient
    /\ \A i \in 1..Len(published) : published[i].call \notin sentAfterDisconnect
    /\ chanOp.op = "connect" =>
          /\ client # NoClient
          /\ sessions[client].state = "active"
          /\ chanOp.did => (sessions[client].socket = "connecting" /\ ~sessions[client].connected)

\* After a disconnect a second session was made by connect, a send made
\* between the two published nothing, and an envelope was published through
\* the second session.
C18_Witness ==
    /\ Len(sessions) = 2
    /\ sentAfterDisconnect # {}
    /\ \E i \in 1..Len(published) : published[i].session = 2

\* C19: after disconnect() no frame that arrives on the old session reaches
\* the handler.
C19_HandlerDetached ==
    ~(chanOp.op = "deliver" /\ chanOp.old /\ chanOp.did)

\* C20: after an unexpected close the active client retries, and once the
\* endpoint stays reachable (no further close) it is connected again.
C20_EventuallyReconnected ==
    (client # NoClient /\ drops = MaxDrops)
        ~> (client = NoClient \/ sessions[client].connected)

\* C21: a frame whose body is no JSON is discarded: the handler is not
\* called and neither the store nor the client, its subscription, the
\* handler and the sessions change; a session stays open and subscribed, on
\* which the next frame is dispatched, and the client is still connected.
C21_MalformedFrame ==
    (chanOp.op = "deliver" /\ chanOp.type = "malformed")
    => /\ ~chanOp.did
       /\ ~chanOp.changed
       /\ \E s \in DOMAIN sessions : sessions[s].socket = "open" /\ sessions[s].subscribed
       /\ ~chanOp.old => (IsConnected /\ sessions[client].subscribed)

\* A frame that is no JSON arrived on the session of a connected client
\* with a registered handler, after a well-formed frame had filled the store.
C21_Witness ==
    /\ chanOp.op = "deliver"
    /\ chanOp.type = "malformed"
    /\ ~chanOp.old
    /\ messageCallback # NoHandler
    /\ IsConnected
    /\ shapes # <<>>

(***************************************************************************)
(* The feature store under inbound envelopes                               *)
(***************************************************************************)
\* The last operation was the receipt of an envelope of the given type.
Received(type) == lastOp.op = "receive" /\ lastOp.msg.type = type

\* The envelope carries a feature with a geometry of a string type, which is
\* what the Feature shape of the wire format requires of it.
CarriesFeature ==
    /\ lastOp.msg.data.kind = "feature"
    /\ HasGeometry(lastOp.msg.data.feature)
    /\ lastOp.msg.data.feature.geometry.type # TypeNull

Ids(s) == [i \in 1..Len(s) |-> s[i].id]
HasId(s, id) == \E i \in 1..Len(s) : s[i].id = id

\* The id an envelope names: its id field, or its feature's id without one.
EnvelopeId == IF lastOp.msg.id # Undefined THEN lastOp.msg.id ELSE lastOp.msg.data.feature.id

\* C1: an add envelope whose feature id is the id of a stored feature leaves
\* the store unchanged (same features, same order, same content).
C1_IdempotentAdd ==
    ( /\ Received("add")
      /\ lastOp.msg.data.kind = "feature"
      /\ lastOp.msg.data.feature.id # Undefined
      /\ HasId(prevShapes, lastOp.msg.data.feature.id) )
    => shapes = prevShapes

\* C2: in every reachable state of the client no two features of the store
\* have the same id.
C2_UniqueIds ==
    \A i, j \in 1..Len(shapes) :
        (i # j /\ shapes[i].id # Undefined) => shapes[i].id # shapes[j].id

\* C3: a bulkAdd envelope, or the initial bulk payload, whose data is an
\* array makes the store exactly that array, whatever it held before.
C3_BulkAddReplaces ==
    ( /\ lastOp.op \in {"receive", "load"}
      /\ lastOp.msg.type = "bulkAdd"
      /\ lastOp.msg.data.kind = "array" )
    => shapes = lastOp.msg.data.items

\* A bulkAdd array has replaced a store holding a feature that is not in it.
C3_Witness ==
    /\ Received("bulkAdd")
    /\ lastOp.msg.data.kind = "array"
    /\ lastOp.msg.data.items # <<>>
    /\ \E i \in 1..Len(prevShapes) :
          \A j \in 1..Len(lastOp.msg.data.items) : lastOp.msg.data.items[j] # prevShapes[i]
    /\ shapes = lastOp.msg.data.items

\* C4: a modify envelope whose id matches a stored feature replaces that
\* feature with the envelope's feature at the same position; the length of
\* the store, the sequence of ids and every other feature are unchanged.
C4_ModifyInPlace ==
    ( /\ Received("modify")
      /\ CarriesFeature
      /\ HasId(prevShapes, EnvelopeId) )
    => LET k == FindIndex(prevShapes, EnvelopeId)
       IN  /\ Len(shapes) = Len(prevShapes)
           /\ Ids(shapes) = Ids(prevShapes)
           /\ \A i \in 1..Len(prevShapes) : i # k => shapes[i] = prevShapes[i]
           /\ shapes[k] = [lastOp.msg.data.feature EXCEPT !.id = EnvelopeId]

\* C5: a modify envelope whose id matches no stored feature appends a
\* feature under the envelope's id carrying the envelope's data, after the
\* prior features, which are unchanged; stated for the envelopes whose
\* coordinates pass the handler's check.
C5_ModifyFallbackAdd ==
    ( /\ Received("modify")
      /\ CarriesFeature
      /\ polygonVerdict(lastOp.msg.data.feature.geometry) = "ok"
      /\ EnvelopeId # Undefined
      /\ ~HasId(prevShapes, EnvelopeId) )
    => shapes = Append(prevShapes, [lastOp.msg.data.feature EXCEPT !.id = EnvelopeId])

\* C6: a remove envelope with id X leaves no feature of id X and every other
\* feature unchanged in the same order; without a feature of id X the store
\* is unchanged.
C6_Remove ==
    Received("remove")
    => /\ ~HasId(shapes, lastOp.msg.id)
       /\ shapes = SelectSeq(prevShapes, LAMBDA f : f.id # lastOp.msg.id)
       /\ ~HasId(prevShapes, lastOp.msg.id) => shapes = prevShapes

\* A remove has taken every feature of its id out of a store that holds
\* another feature as well.
C6_Witness ==
    /\ Received("remove")
    /\ HasId(prevShapes, lastOp.msg.id)
    /\ shapes # <<>>
    /\ Len(shapes) < Len(prevShapes)

\* C7: an envelope of a type other than add, modify, remove and bulkAdd, or a
\* bulkAdd envelope whose data is no array, leaves the store as it was.
C7_NoMutation ==
    ( /\ lastOp.op = "receive"
      /\ \/ lastOp.msg.type \notin {"add", "modify", "remove", "bulkAdd"}
         \/ lastOp.msg.type = "bulkAdd" /\ lastOp.msg.data.kind # "array" )
    => shapes = prevShapes

\* A bulkAdd envelope whose data is a single feature, not an array, has been
\* processed against a store that holds features.
C7_Witness ==
    /\ Received("bulkAdd")
    /\ lastOp.msg.data.kind = "feature"
    /\ prevShapes # <<>>
    /\ shapes = prevShapes

\* C24: the envelope processed last wins: after a modify envelope for id X
\* the store holds, under X, the geometry and properties that envelope
\* carries, and after a remove envelope for X it holds nothing under X,
\* whatever was processed before.  (An add of a stored id is left out: it is
\* ignored by design.)
C24_LastEnvelopeWins ==
    /\ ( Received("modify") /\ CarriesFeature /\ EnvelopeId # Undefined )
       => /\ HasId(shapes, EnvelopeId)
          /\ \A i \in 1..Len(shapes) :
                shapes[i].id = EnvelopeId =>
                    /\ shapes[i].geometry = lastOp.msg.data.feature.geometry
                    /\ shapes[i].properties = lastOp.msg.data.feature.properties
    /\ Received("remove") => ~HasId(shapes, lastOp.msg.id)

\* A coordinate pair as the store is claimed to hold it.
IsFinitePair(p) ==
    IsArray(p) /\ Len(p.a) = 2 /\ NumberIsFinite(p.a[1]) /\ NumberIsFinite(p.a[2])

\* A ring as the store is claimed to hold it: finite pairs, first = last.
IsClosedRing(ring) ==
    /\ IsArray(ring)
    /\ \A j \in 1..Len(ring.a) : IsFinitePair(ring.a[j])
    /\ Len(ring.a) > 0 => ring.a[1] = ring.a[Len(ring.a)]

\* C11: every Polygon feature in the store has closed rings, and its
\* coordinate pairs (and those of every Point) are 2-element arrays of
\* finite numbers, in every reachable state.
C11_StoreNormalized ==
    \A i \in 1..Len(shapes) :
        /\ shapes[i].geometry.type = "Polygon" =>
              /\ IsArray(shapes[i].geometry.coordinates)
              /\ \A r \in 1..Len(shapes[i].geometry.coordinates.a) :
                    IsClosedRing(shapes[i].geometry.coordinates.a[r])
        /\ shapes[i].geometry.type = "Point" => IsFinitePair(shapes[i].geometry.coordinates)

\* C12: an add or modify envelope whose Polygon holds a non-finite value or a
\* pair of the wrong length is not discarded: a feature of its id is in the
\* store afterwards, and an envelope for an absent id adds one feature.
C12_MalformedNotDiscarded ==
    ( /\ Received("add") \/ Received("modify")
      /\ CarriesFeature
      /\ polygonVerdict(lastOp.msg.data.feature.geometry) = "reject"
      /\ EnvelopeId # Undefined )
    => /\ HasId(shapes, EnvelopeId)
       /\ ~HasId(prevShapes, EnvelopeId) => Len(shapes) = Len(prevShapes) + 1

\* C13: no inbound envelope and no initial payload drives the client into
\* the failed state, in which nothing is rendered or processed any more.
C13_NeverFailed == ~failed

(***************************************************************************)
(* Reconciliation and the gestures of the user                             *)
(***************************************************************************)
\* The store has been rendered: the reconciliation effect has run against
\* the snapshot that is the store now.
Rendered == ~dirty /\ ~failed /\ shapesRef = shapes

\* C22: once the reconciliation effect has run against a snapshot, a second
\* run against the same snapshot creates, recreates and deletes no layer: it
\* leaves the layer map and the feature group as they are and makes no layer.
C22_ReconciliationStable ==
    Rendered =>
        LET again == reconcile(LayerState, shapes)
        IN  /\ ~again.failed
            /\ again.layerMap = layerMap
            /\ again.drawnItems = drawnItems
            /\ DOMAIN again.layers = DOMAIN layers

\* C25: a create gesture sends one add envelope, whose feature has an id
\* that no feature of the store had before, and appends that feature to the
\* store, which then holds exactly one feature of that id.
C25_FreshId ==
    lastOp.op = "create"
    => /\ Len(lastOp.sent) = 1
       /\ lastOp.sent[1].type = "add"
       /\ LET created == lastOp.sent[1].data.feature
          IN  /\ ~HasId(prevShapes, created.id)
              /\ shapes = Append(prevShapes, created)
              /\ Cardinality({i \in 1..Len(shapes) : shapes[i].id = created.id}) = 1

\* C26: an edit gesture sends a modify envelope only for layers whose
\* feature id is in the store, and sends one for each of those; it adds and
\* removes no feature and leaves every feature of another id as it was; when
\* no layer of the gesture has its feature id in the store, the store is
\* unchanged and nothing is sent.
C26_UntrackedEditSkipped ==
    lastOp.op = "edit"
    => /\ \A i \in 1..Len(lastOp.sent) :
              /\ lastOp.sent[i].type = "modify"
              /\ lastOp.sent[i].id \in lastOp.ids
              /\ HasId(prevShapes, lastOp.sent[i].id)
       /\ \A id \in lastOp.ids :
              HasId(prevShapes, id) => \E i \in 1..Len(lastOp.sent) : lastOp.sent[i].id = id
       /\ Ids(shapes) = Ids(prevShapes)
       /\ \A i \in 1..Len(shapes) : shapes[i].id \notin lastOp.ids => shapes[i] = prevShapes[i]
       /\ (\A id \in lastOp.ids : ~HasId(prevShapes, id))
              => (shapes = prevShapes /\ lastOp.sent = <<>> /\ ~dirty)

\* An edit gesture on a layer whose feature id is not in the store was
\* skipped.
C26_Witness ==
    /\ lastOp.op = "edit"
    /\ lastOp.ids # {}
    /\ \A id \in lastOp.ids : ~HasId(prevShapes, id)
    /\ lastOp.sent = <<>>
    /\ shapes = prevShapes

\* The positions of the store an edit gesture is about: that of the feature
\* found for each layer of the gesture.
EditedPositions == {FindIndex(prevShapes, id) : id \in lastOp.ids} \ {0}

\* C27: an edit gesture changes, of the feature found for each of its
\* layers, the geometry alone (id and properties stay those of the store
\* before the gesture), leaves every other feature and the order of the
\* store unchanged, and sends for each such feature one modify envelope with
\* its id and the updated feature.
C27_EditChangesGeometryOnly ==
    lastOp.op = "edit"
    => /\ Len(shapes) = Len(prevShapes)
       /\ \A k \in EditedPositions :
              /\ shapes[k].id = prevShapes[k].id
              /\ shapes[k].properties = prevShapes[k].properties
              /\ Cardinality({i \in 1..Len(lastOp.sent) :
                                lastOp.sent[i].id = prevShapes[k].id}) = 1
              /\ \E i \in 1..Len(lastOp.sent) :
                    /\ lastOp.sent[i].type = "modify"
                    /\ lastOp.sent[i].id = prevShapes[k].id
                    /\ lastOp.sent[i].data = FeatureData(shapes[k])
       /\ \A i \in 1..Len(shapes) : i \notin EditedPositions => shapes[i] = prevShapes[i]

\* C28: a delete gesture drops the id of each of its tracked layers from
\* the layer map, leaves no feature of that id in the store, and sends one
\* remove envelope with that id and no data.
C28_DeleteTracked ==
    lastOp.op = "delete"
    => \A id \in lastOp.tracked :
          /\ id \notin DOMAIN layerMap
          /\ ~HasId(shapes, id)
          /\ Cardinality({i \in 1..Len(lastOp.sent) :
                            /\ lastOp.sent[i].type = "remove"
                            /\ lastOp.sent[i].id = id
                            /\ lastOp.sent[i].data = NoData}) = 1

\* C29: a layer of the layer map has its editing enabled only if its
\* feature id is the selected id and the editing flag is on.
C29_EditingOnlySelected ==
    \A k \in DOMAIN layerMap :
        layers[layerMap[k]].editing =>
            (layers[layerMap[k]].feature.id = selectedId /\ isEditing)

\* C30: updateProperty on the selected feature changes that key of that
\* feature's properties alone (its id, geometry and other properties, every
\* other feature and the order of the store stay) and sends one modify
\* envelope with the updated feature and its id; without a feature of the
\* selected id the store keeps its content and nothing is sent.
C30_UpdateProperty ==
    lastOp.op = "updateProperty"
    => LET k == FindIndex(prevShapes, selectedId)
       IN  IF k = 0
           THEN shapes = prevShapes /\ lastOp.sent = <<>>
           ELSE /\ Len(shapes) = Len(prevShapes)
                /\ shapes[k].id = prevShapes[k].id
                /\ shapes[k].geometry = prevShapes[k].geometry
                /\ shapes[k].properties.id = prevShapes[k].properties.id
                /\ \A i \in 1..Len(shapes) : i # k => shapes[i] = prevShapes[i]
                /\ lastOp.sent = <<Sent("modify", FeatureData(shapes[k]), shapes[k].id)>>

\* C31: a layer the reconciliation pass destroys, in the removal pass or as
\* the destroy half of a recreate, has its editing disabled when it is
\* destroyed, and after the removal pass no layer is tracked for an id that
\* the snapshot does not hold.
C31_DisabledBeforeDestroyed ==
    (lastOp.op = "render" /\ ~renderThrows(shapes) /\ ~HasId(shapes, Undefined))
    => /\ \A d \in lastOp.destroyed : ~d.editing
       /\ \A k \in DOMAIN layerMap : HasId(shapes, k)

\* The removal pass has destroyed a layer whose editing was enabled.
C31_Witness ==
    /\ lastOp.op = "render"
    /\ \E d \in lastOp.destroyed : d.was /\ ~HasId(shapes, d.id)

\* C33: after every completed reconciliation pass the layer map mirrors the
\* store: an id has a tracked layer exactly when the store holds a feature
\* of that id, and the geometry of that layer's feature is the validated
\* geometry of the store's feature of that id.
C33_LayerMapMirrorsStore ==
    (lastOp.op = "render" /\ ~failed)
    => /\ \A k \in DOMAIN layerMap : HasId(shapes, k)
       /\ \A i \in 1..Len(shapes) :
            /\ shapes[i].id \in DOMAIN layerMap
            /\ layers[layerMap[shapes[i].id]].feature.geometry
                    = ensurePolygonClosedAndClean(shapes[i]).feature.geometry

\* C35: what an envelope or a gesture did while the initial fetch was in
\* flight is not lost when the fetch completes: after the payload is
\* applied the store still holds the features it held, and no feature of an
\* id that was removed.
C35_NotLostOnLoad ==
    lastOp.op = "load"
    => /\ \A i \in 1..Len(prevShapes) : \E j \in 1..Len(shapes) : shapes[j] = prevShapes[i]
       /\ \A id \in lastOp.gone : ~HasId(shapes, id)

\* C36: with the editing flag on and all pending passes run, the tracked
\* layer of the selected feature has its editing enabled, also after a
\* modify envelope that changed the geometry made the pass recreate it.
C36_SelectedLayerEditable ==
    (isEditing /\ ~dirty /\ ~failed /\ selectedId \in DOMAIN layerMap)
    => layers[layerMap[selectedId]].editing

\* The selected layer was recreated by a pass while the editing flag was on,
\* and its editing is enabled.
C36_Witness ==
    /\ isEditing /\ ~dirty /\ ~failed
    /\ lastOp.op = "render"
    /\ \E d \in lastOp.destroyed : d.id = selectedId /\ d.was
    /\ selectedId \in DOMAIN layerMap
    /\ layers[layerMap[selectedId]].editing

\* The layers a reconciliation pass that ends in state st has created.
Made(st) == DOMAIN st.layers \ DOMAIN layers

\* C37: the echo of an envelope the client published from a gesture, with
\* no other envelope handled in between, leaves the store as it was, and the
\* reconciliation pass that follows creates, recreates and deletes no layer.
C37_EchoStable ==
    lastOp.op = "echo"
    => /\ shapes = prevShapes
       /\ dirty => LET after == reconcile(LayerState, shapes)
                   IN  /\ ~after.failed
                       /\ Made(after) = {}
                       /\ after.destroyed = {}
                       /\ after.layerMap = layerMap
                       /\ after.drawnItems = drawnItems

\* C23: when a modify envelope for a tracked feature changes its coordinates
\* and not its geometry type, the render that follows destroys the feature's
\* layer and creates one layer, which is the feature's; when it changes the
\* properties alone, the render creates no layer, keeps the feature's layer
\* and applies the envelope's properties to it.
C23_GeometryChangeRecreates ==
    ( /\ Received("modify")
      /\ CarriesFeature
      /\ HasId(prevShapes, EnvelopeId)
      /\ EnvelopeId \in DOMAIN layerMap )
    => LET old == prevShapes[FindIndex(prevShapes, EnvelopeId)]
           new == lastOp.msg.data.feature
           h == layerMap[EnvelopeId]
           after == reconcile(LayerState, shapes)
       IN  /\ ( /\ new.geometry.type = old.geometry.type
                /\ new.geometry.coordinates # old.geometry.coordinates )
              => /\ ~after.failed
                 /\ Cardinality(Made(after)) = 1
                 /\ after.layerMap[EnvelopeId] \in Made(after)
                 /\ h \notin after.drawnItems
           /\ ( /\ new.geometry = old.geometry
                /\ new.properties # old.properties )
              => /\ ~after.failed
                 /\ Made(after) = {}
                 /\ after.layerMap = layerMap
                 /\ after.layers[h].feature.properties =
                        mergeProperties(layers[h].feature.properties, new.properties)

(***************************************************************************)
(* Validator harness: the validator applied once to a feature drawn from   *)
(* ValidatorInputs.                                                        *)
(***************************************************************************)
MaxRingLen == 3

\* What may stand where a ring holds a coordinate pair.
RingElements ==
    { Pair(0, 0), Pair(1, 0), Pair(1, 1),
      JArr(<<JNaN, JNum(1)>>), JArr(<<JNum(1), JInf>>), JArr(<<JNull, JNum(1)>>),
      JArr(<<JStr(<<"1">>), JStr(<<"0">>)>>), JArr(<<JStr(<<"x">>), JNum(1)>>),
      JArr(<<JStr(<<"1", "e", "9", "9", "9">>), JNum(0)>>),
      JArr(<<JNum(1), JNum(0), JNum(1)>>), JArr(<<>>),
      JNull, JNum(1) }

Rings == UNION { [1..n -> RingElements] : n \in 0..MaxRingLen }

\* What may follow the first ring of a polygon.
MoreRings == { <<>>, <<JNull>>, <<JArr(<<>>)>>, <<JArr(<<Pair(0, 0), Pair(1, 1)>>)>> }

PolygonInputs ==
    { Feature(1, Geometry("Polygon", JArr(<<JArr(r)>> \o m)), ps) :
        r \in Rings, m \in MoreRings, ps \in {Properties(1, "red")} }

OtherInputs ==
    { Feature(id, g, ps) :
        id \in {Undefined, 1},
        g \in { NoGeometry,
                Geometry("Polygon", JNull), Geometry("Polygon", JUndef),
                Geometry("Polygon", JNum(1)), Geometry("Polygon", Pair(0, 1)),
                Geometry("Point", JNull) }
             \cup { Geometry("Point", e) : e \in RingElements }
             \cup { Geometry("LineString", JArr(<<e1, e2>>)) : e1, e2 \in RingElements },
        ps \in {NoProperties, Properties(1, "red")} }

ValidatorInputs == PolygonInputs \cup OtherInputs

NotRun(f) == [ran |-> FALSE, threw |-> FALSE, feature |-> f]

InitValidator ==
    /\ cleanIn \in ValidatorInputs
    /\ cleanOut = NotRun(cleanIn)
    /\ StatsIdle
    /\ ReplicasIdle
    /\ InitClient
    /\ InitChannel
    /\ ~observe
    /\ events = 0

\* One call of the validator on the harness input.
Validate ==
    /\ ~cleanOut.ran
    /\ LET r == ensurePolygonClosedAndClean(cleanIn)
       IN  cleanOut' = [ran |-> TRUE, threw |-> r.threw, feature |-> r.feature]
    /\ UNCHANGED <<cleanIn, statsIn, statsOut, replicas, broadcast, clientVars, events,
                   channelVars>>

NextValidator == Validate

SpecValidator == InitValidator /\ [][NextValidator]_vars

\* The validator returned a Polygon whose coordinates are an array.
ReturnedPolygon ==
    /\ cleanOut.ran
    /\ ~cleanOut.threw
    /\ cleanOut.feature.geometry.type = "Polygon"
    /\ IsArray(cleanOut.feature.geometry.coordinates)

\* C8: for any Polygon feature passed through the validator, every ring of
\* the result has its first coordinate pair equal to its last (already-closed,
\* open, single-point rings and rings with malformed elements alike).
C8_ClosedRings ==
    ReturnedPolygon =>
        \A i \in 1..Len(cleanOut.feature.geometry.coordinates.a) :
            LET ring == cleanOut.feature.geometry.coordinates.a[i]
            IN  /\ IsArray(ring)
                /\ Len(ring.a) > 0 => ring.a[1] = ring.a[Len(ring.a)]

\* A coordinate pair as the claim wants it after validation: an array of
\* exactly two finite-parseable elements keeps its (parsed) value, anything
\* else is (0,0).
IsFiniteParseable(x) == IsNumberOrString(x) /\ NumberIsFinite(ParseFloat(x))

SanitizedPair(p) ==
    IF IsArray(p) /\ Len(p.a) = 2 /\ IsFiniteParseable(p.a[1]) /\ IsFiniteParseable(p.a[2])
    THEN JArr(<<ParseFloat(p.a[1]), ParseFloat(p.a[2])>>)
    ELSE Pair(0, 0)

\* The harness input is a Polygon whose rings are arrays: every element of a
\* ring stands where a coordinate pair belongs.
InputIsRingsOfPairs ==
    /\ cleanIn.geometry.type = "Polygon"
    /\ IsArray(cleanIn.geometry.coordinates)
    /\ \A i \in 1..Len(cleanIn.geometry.coordinates.a) :
            IsArray(cleanIn.geometry.coordinates.a[i])

\* C9: after validation every leaf pair that held NaN, Infinity or had a
\* malformed shape is exactly (0,0), and every valid finite pair is unchanged.
C9_CoordinateSanitation ==
    (ReturnedPolygon /\ InputIsRingsOfPairs) =>
        \A i \in 1..Len(cleanIn.geometry.coordinates.a) :
            LET inRing == cleanIn.geometry.coordinates.a[i].a
                outRing == cleanOut.feature.geometry.coordinates.a[i].a
            IN  /\ Len(outRing) >= Len(inRing)
                /\ \A j \in 1..Len(inRing) : outRing[j] = SanitizedPair(inRing[j])

\* C10: the validator never throws; for every input feature it returns a
\* feature with a properties map and a geometry.
C10_NeverThrows ==
    cleanOut.ran =>
        /\ ~cleanOut.threw
        /\ cleanOut.feature.properties.present
        /\ HasGeometry(cleanOut.feature)

(***************************************************************************)
(* Statistics harness: getShapeStats and the area line for one shape       *)
(***************************************************************************)
MaxStatsRing == 4

\* Coordinates in metres: with them an area in square kilometres has digits
\* after the second decimal and never lies midway between two hundredths.
StatsCoordinates == {0, 40, 1000}

StatsPairs == { Pair(x, y) : x, y \in StatsCoordinates }

StatsRings == UNION { [1..n -> StatsPairs] : n \in 0..MaxStatsRing }

StatsInputs ==
    { Feature(1, Geometry("Polygon", JArr(<<JArr(r)>>)), Properties(1, "red")) : r \in StatsRings }
    \cup { NoFeature, Feature(1, PointA, Properties(1, "red")) }

InitStats ==
    /\ statsIn \in StatsInputs
    /\ statsOut = NoStats
    /\ cleanIn = NoFeature
    /\ cleanOut = NotRun(NoFeature)
    /\ ReplicasIdle
    /\ InitClient
    /\ InitChannel
    /\ ~observe
    /\ events = 0

\* One render with statsIn selected: line 132 and the panel's area line.
Project ==
    /\ ~statsOut.ran
    /\ statsOut' = AreaLine(getShapeStats(statsIn))
    /\ UNCHANGED <<statsIn, cleanIn, cleanOut, replicas, broadcast, clientVars, events,
                   channelVars>>

NextStats == Project

SpecStats == InitStats /\ [][NextStats]_vars

\* The ring of a Polygon on the harness, its shoelace sum (twice the signed
\* area in square metres) and the shape with the ring in the other order.
StatsRing == statsIn.geometry.coordinates.a[1].a
ShoelaceSum == reduceCross(StatsRing, Len(StatsRing))
Reversed ==
    [statsIn EXCEPT !.geometry.coordinates =
        JArr(<<JArr([i \in 1..Len(StatsRing) |-> StatsRing[Len(StatsRing) + 1 - i]])>>)]
ProjectedPolygon ==
    statsOut.ran /\ statsIn # NoFeature /\ statsIn.geometry.type = "Polygon"

MaxGestures == 3

Clients == {1, 2}

\* The store both clients start from.
SharedStores ==
    { <<>>,
      <<Feature(3, PointA, Properties(3, "red"))>>,
      <<Feature(3, ClosedPolygon, Properties(Undefined, "red"))>> }

\* handleCreate, lines 256-312, on the store: [shapes, sent].
handleCreate(prev, id, geometry) ==
    LET geoJson == Feature(id, geometry, Properties(id, DefaultColor))
    IN  [shapes |-> Append(prev, geoJson),
         sent |-> <<Sent("add", FeatureData(geoJson), Undefined)>>]

\* handleEdit, lines 314-339, for the layer of the stored feature prev[i].
handleEdit(prev, i) ==
    LET existingShape == prev[FindIndex(prev, prev[i].id)]
        updatedFeature == [existingShape EXCEPT !.geometry = EditedGeometry(prev[i].geometry)]
    IN  [shapes |-> [j \in 1..Len(prev) |->
                        IF prev[j].id = existingShape.id THEN updatedFeature ELSE prev[j]],
         sent |-> <<Sent("modify", FeatureData(updatedFeature), updatedFeature.id)>>]

\* handleDelete, lines 341-350, for the layer of the stored feature prev[i].
handleDelete(prev, i) ==
    IF prev[i].properties.present
    THEN [shapes |-> Filter(prev, prev[i].properties.id),
          sent |-> <<Sent("remove", NoData, prev[i].properties.id)>>]
    ELSE [shapes |-> prev, sent |-> <<>>]

InitReplicas ==
    /\ \E store \in SharedStores :
            replicas = [c \in Clients |-> [shapes |-> store, lastId |-> 0, delivered |-> 0]]
    /\ broadcast = <<>>
    /\ cleanIn = NoFeature
    /\ cleanOut = NotRun(NoFeature)
    /\ StatsIdle
    /\ InitClient
    /\ InitChannel
    /\ ~observe
    /\ events = 0

\* A gesture of client c with outcome r: its store is updated at once and
\* its envelopes are published.
ReplicaGesture(c, r) ==
    /\ events < MaxGestures
    /\ events' = events + 1
    /\ broadcast' = broadcast \o r.sent
    /\ UNCHANGED <<cleanIn, cleanOut, statsIn, statsOut, clientVars, channelVars>>

ReplicaCreate(c, id, geometry) ==
    /\ replicas[c].lastId < id
    /\ Len(replicas[c].shapes) < MaxShapes
    /\ replicas' = [replicas EXCEPT ![c].shapes = handleCreate(@, id, geometry).shapes,
                                    ![c].lastId = id]
    /\ ReplicaGesture(c, handleCreate(replicas[c].shapes, id, geometry))

ReplicaEdit(c, i) ==
    /\ replicas' = [replicas EXCEPT ![c].shapes = handleEdit(@, i).shapes]
    /\ ReplicaGesture(c, handleEdit(replicas[c].shapes, i))

ReplicaDelete(c, i) ==
    /\ replicas' = [replicas EXCEPT ![c].shapes = handleDelete(@, i).shapes]
    /\ ReplicaGesture(c, handleDelete(replicas[c].shapes, i))

ReplicaUpdateProperty(c, i, value) ==
    /\ replicas' = [replicas EXCEPT ![c].shapes =
                        updateShapeProperty(@, replicas[c].shapes[i].id, value).shapes]
    /\ ReplicaGesture(c, updateShapeProperty(replicas[c].shapes,
                                             replicas[c].shapes[i].id, value))

\* Client c handles the next envelope of the broadcast.
ReplicaReceive(c) ==
    /\ replicas[c].delivered < Len(broadcast)
    /\ replicas' = [replicas EXCEPT
            ![c].shapes = handleIncomingMessage(@, broadcast[replicas[c].delivered + 1]).shapes,
            ![c].delivered = @ + 1]
    /\ UNCHANGED <<broadcast, cleanIn, cleanOut, statsIn, statsOut, clientVars, events,
                   channelVars>>

NextReplicas ==
    \E c \in Clients :
        \/ \E id \in 1..MaxStamp, geometry \in DrawnGeometries : ReplicaCreate(c, id, geometry)
        \/ \E i \in 1..Len(replicas[c].shapes) : ReplicaEdit(c, i)
        \/ \E i \in 1..Len(replicas[c].shapes) : ReplicaDelete(c, i)
        \/ \E i \in 1..Len(replicas[c].shapes), value \in Colors :
                ReplicaUpdateProperty(c, i, value)
        \/ ReplicaReceive(c)

SpecReplicas == InitReplicas /\ [][NextReplicas]_vars

\* Every client has handled every published envelope.
Quiescent == \A c \in Clients : replicas[c].delivered = Len(broadcast)

\* The features a store holds.
Content(store) == {store[i] : i \in 1..Len(store)}

\* C34: two clients that start from the same store, apply their own
\* gestures at once and then both handle the same broadcast of all
\* published envelopes, their own included, end with stores that hold the
\* same features.
C34_Convergence ==
    Quiescent => Content(replicas[1].shapes) = Content(replicas[2].shapes)

====
